---- MODULE Spec2Model ----
(***************************************************************************)
(* The AST layer of the Zogue interpreter (package ast): Program,         *)
(* LetStatement, ReturnStatement, ExpressionStatement and Identifier,     *)
(* with their TokenLiteral() and String() methods.                        *)
(*                                                                         *)
(* Texts are TLA+ strings and \o is Go's string concatenation.  A method  *)
(* call yields a result record: either a returned text or a run-time      *)
(* panic (nil pointer dereference, index out of range).                   *)
(*                                                                         *)
(* A pointer or interface field is a sequence of length at most one:      *)
(* <<>> is nil, <<v>> points to v.                                        *)
(***************************************************************************)
EXTENDS Integers, Sequences, FiniteSets, TLC

VARIABLES
  Statements,  \* Program.Statements, the slice of the root Program
  node,        \* the statement a producer is building field by field (nil or one)
  call,        \* the last method call a consumer made, and on which node
  out,         \* what that call produced
  last         \* a String() result a consumer kept of one node, to compare with

vars == <<Statements, node, call, out, last>>

\* ---------------------------------------------------------------- bounds

MaxStatements == 2

\* ------------------------------------------------------- values of the AST

Nil == <<>>

Token(type, literal) == [Type |-> type, Literal |-> literal]

ZeroToken == Token("", "")

Identifier(tok, value) == [Token |-> tok, Value |-> value]

LetStatement(tok, name, value) ==
  [kind |-> "LetStatement", Token |-> tok, Name |-> name, Value |-> value]

ReturnStatement(tok, returnValue) ==
  [kind |-> "ReturnStatement", Token |-> tok, ReturnValue |-> returnValue]

ExpressionStatement(tok, expression) ==
  [kind |-> "ExpressionStatement", Token |-> tok, Expression |-> expression]

\* The pointer / interface fields each statement type declares.
Fields(s) ==
  CASE s.kind = "LetStatement" -> {"Name", "Value"}
    [] s.kind = "ReturnStatement" -> {"ReturnValue"}
    [] s.kind = "ExpressionStatement" -> {"Expression"}

\* ------------------------------------------------------ inputs that are drawn

IdentLiterals == {"", "x", "y"}

IdentNames == {"x", "y", "five", "foobar"}

Identifiers ==
  {Identifier(Token(IF l = "" THEN "" ELSE "IDENT", l), v) :
     l \in IdentLiterals, v \in IdentNames}

\* The Token a statement is created with: its keyword's (for an expression
\* statement, the first token of the expression), or the zero Token when the
\* struct literal names none.
LetTokens == {Token("LET", "let"), ZeroToken}

ReturnTokens == {Token("RETURN", "return"), ZeroToken}

ExpressionTokens == {Token("IDENT", "foobar"), Token("IDENT", "x"), ZeroToken}

IdX == Identifier(Token("IDENT", "x"), "x")
IdY == Identifier(Token("IDENT", "y"), "y")
IdFive == Identifier(ZeroToken, "five")
IdFoobar == Identifier(ZeroToken, "foobar")

\* The statements a producer appends to a Program: every shape of every type.
StatementPool ==
  { LetStatement(Token("LET", "let"), <<IdX>>, <<IdY>>),
    LetStatement(Token("LET", "let"), <<IdX>>, Nil),
    LetStatement(Token("LET", "let"), Nil, Nil),
    ReturnStatement(Token("RETURN", "return"), <<IdFive>>),
    ReturnStatement(Token("RETURN", "return"), Nil),
    ExpressionStatement(Token("IDENT", "foobar"), <<IdFoobar>>),
    ExpressionStatement(ZeroToken, Nil) }

\* ------------------------------------------------------------ call results

Returns(text) == [panic |-> FALSE, text |-> text]

Panic == [panic |-> TRUE, text |-> ""]

\* r + s, where r is the result of a call and s a string constant.
Plus(r, s) == IF r.panic THEN Panic ELSE Returns(r.text \o s)

\* out.WriteString(r) on the bytes.Buffer whose content so far is buf; a panic
\* while the argument is evaluated, or an earlier one, unwinds the method.
WriteString(buf, r) ==
  IF buf.panic \/ r.panic THEN Panic ELSE Returns(buf.text \o r.text)

\* ---------------------------------------------------------------- Identifier

\* i is a *Identifier: i.Token on a nil i is a nil pointer dereference.
Identifier_TokenLiteral(i) ==
  IF i = Nil THEN Panic ELSE Returns(i[1].Token.Literal)

Identifier_String_ReturnsLiteral(i) ==
  IF i = Nil THEN Panic ELSE Returns(i[1].Token.Literal)

Identifier_String(i) ==
  IF i = Nil THEN Panic ELSE Returns(i[1].Value)

\* Dynamic dispatch on an Expression; Identifier is the only implementation.
Expression_String(e) == Identifier_String(e)

Expression_TokenLiteral(e) == Identifier_TokenLiteral(e)

\* -------------------------------------------------------------- LetStatement

LetStatement_TokenLiteral(ls) == Returns(ls.Token.Literal)

LetStatement_String_NoValueCheck(ls) ==
  LET out1 == WriteString(Returns(""), Plus(LetStatement_TokenLiteral(ls), " "))
      out2 == WriteString(out1, Identifier_String(ls.Name))
      out3 == WriteString(out2, Returns(" = "))
      out4 == WriteString(out3, Expression_String(ls.Value))
  IN  WriteString(out4, Returns(";"))

LetStatement_String(ls) ==
  LET out1 == WriteString(Returns(""), Plus(LetStatement_TokenLiteral(ls), " "))
      out2 == WriteString(out1, Identifier_String(ls.Name))
      out3 == WriteString(out2, Returns(" = "))
      out4 == IF ls.Value # Nil
                THEN WriteString(out3, Expression_String(ls.Value))
                ELSE out3
  IN  WriteString(out4, Returns(";"))

\* ----------------------------------------------------------- ReturnStatement

ReturnStatement_TokenLiteral(rs) == Returns(rs.Token.Literal)

ReturnStatement_String_Placeholder(rs) ==
  LET out1 == WriteString(Returns(""), Plus(ReturnStatement_TokenLiteral(rs), " "))
      out2 == IF rs.ReturnValue # Nil
                THEN WriteString(out1, Expression_String(rs.ReturnValue))
                ELSE WriteString(out1, Returns("<nil>"))
  IN  WriteString(out2, Returns(";"))

ReturnStatement_String_ValueLiteral(rs) ==
  LET out1 == WriteString(Returns(""), Plus(ReturnStatement_TokenLiteral(rs), " "))
      out2 == IF rs.ReturnValue # Nil
                THEN WriteString(out1, Expression_TokenLiteral(rs.ReturnValue))
                ELSE out1
  IN  WriteString(out2, Returns(";"))

ReturnStatement_String(rs) ==
  LET out1 == WriteString(Returns(""), Plus(ReturnStatement_TokenLiteral(rs), " "))
      out2 == IF rs.ReturnValue # Nil
                THEN WriteString(out1, Expression_String(rs.ReturnValue))
                ELSE out1
  IN  WriteString(out2, Returns(";"))

\* ------------------------------------------------------- ExpressionStatement

ExpressionStatement_TokenLiteral(es) == Returns(es.Token.Literal)

ExpressionStatement_String_Terminated(es) ==
  IF es.Expression # Nil
    THEN Plus(Expression_String(es.Expression), ";")
    ELSE Returns("")

ExpressionStatement_String(es) ==
  IF es.Expression # Nil
    THEN Expression_String(es.Expression)
    ELSE Returns("")

\* --------------------------------------------- dispatch on a Statement value

Statement_TokenLiteral(s) ==
  CASE s.kind = "LetStatement" -> LetStatement_TokenLiteral(s)
    [] s.kind = "ReturnStatement" -> ReturnStatement_TokenLiteral(s)
    [] s.kind = "ExpressionStatement" -> ExpressionStatement_TokenLiteral(s)

Statement_String(s) ==
  CASE s.kind = "LetStatement" -> LetStatement_String(s)
    [] s.kind = "ReturnStatement" -> ReturnStatement_String(s)
    [] s.kind = "ExpressionStatement" -> ExpressionStatement_String(s)

\* ------------------------------------------------------------------- Program

\* for _, s := range p.Statements { out.WriteString(s.String()) }
RECURSIVE Program_String_Range(_, _, _)
Program_String_Range(stmts, i, buf) ==
  IF i > Len(stmts)
    THEN buf
    ELSE Program_String_Range(stmts, i + 1,
                              WriteString(buf, Statement_String(stmts[i])))

RECURSIVE Program_String_RangeNewline(_, _, _)
Program_String_RangeNewline(stmts, i, buf) ==
  IF i > Len(stmts)
    THEN buf
    ELSE Program_String_RangeNewline(stmts, i + 1,
           WriteString(buf, Plus(Statement_String(stmts[i]), "\n")))

Program_String_Separated(stmts) ==
  Program_String_RangeNewline(stmts, 1, Returns(""))

Program_String(stmts) == Program_String_Range(stmts, 1, Returns(""))

Program_TokenLiteral_LastStatement(stmts) ==
  IF Len(stmts) > 0
    THEN Statement_TokenLiteral(stmts[Len(stmts)])
    ELSE Returns("")

\* p.Statements[0] on an empty slice is an index-out-of-range panic.
Program_TokenLiteral_NoLenCheck(stmts) ==
  IF Len(stmts) = 0 THEN Panic ELSE Statement_TokenLiteral(stmts[1])

Program_TokenLiteral(stmts) ==
  IF Len(stmts) > 0
    THEN Statement_TokenLiteral(stmts[1])
    ELSE Returns("")

\* ----------------------------------------------------- nodes a consumer holds

FieldNames == {"Name", "Value", "ReturnValue", "Expression"}

\* A node of the tree: the Program, its idx-th statement, the statement being
\* built, or (field # "") the Identifier held by that field of the statement.
ProgramNode == [on |-> "Program", idx |-> 0, field |-> ""]

BuiltNode == [on |-> "node", idx |-> 0, field |-> ""]

Targets ==
  {ProgramNode}
    \cup {[on |-> "Statement", idx |-> i, field |-> f] :
            i \in 1..MaxStatements, f \in FieldNames \cup {""}}
    \cup {[on |-> "node", idx |-> 0, field |-> f] : f \in FieldNames \cup {""}}

TargetStatement(t) ==
  IF t.on = "node"
    THEN node
    ELSE IF t.on = "Statement" /\ t.idx \in 1..Len(Statements)
           THEN <<Statements[t.idx]>>
           ELSE Nil

Exists(t) ==
  \/ t.on = "Program"
  \/ /\ TargetStatement(t) # Nil
     /\ LET s == TargetStatement(t)[1]
        IN  \/ t.field = ""
            \/ t.field \in Fields(s) /\ s[t.field] # Nil

\* n.String() and n.TokenLiteral() for the Node n that t names.
Node_String(t) ==
  IF t.on = "Program"
    THEN Program_String(Statements)
    ELSE LET s == TargetStatement(t)[1]
         IN  IF t.field = "" THEN Statement_String(s)
                             ELSE Expression_String(s[t.field])

Node_TokenLiteral(t) ==
  IF t.on = "Program"
    THEN Program_TokenLiteral(Statements)
    ELSE LET s == TargetStatement(t)[1]
         IN  IF t.field = "" THEN Statement_TokenLiteral(s)
                             ELSE Expression_TokenLiteral(s[t.field])

NoCall == [op |-> "none", t |-> [on |-> "none", idx |-> 0, field |-> ""],
           repeat |-> FALSE]

\* An unrecovered panic ends the process.
Running == ~out.panic

\* ---------------------------------------------------------------- operations

Init ==
  /\ Statements = <<>>
  /\ node = Nil
  /\ call = NoCall
  /\ out = Returns("")
  /\ last = Nil

Built(s) ==
  /\ node' = <<s>>
  /\ call' = NoCall
  /\ out' = Returns("")
  /\ last' = Nil
  /\ UNCHANGED Statements

\* stmt := &ast.LetStatement{Token: tok}, or &ast.LetStatement{} with the zero Token
NewLetStatement(tok) ==
  /\ Running
  /\ node = Nil
  /\ Built(LetStatement(tok, Nil, Nil))

NewReturnStatement(tok) ==
  /\ Running
  /\ node = Nil
  /\ Built(ReturnStatement(tok, Nil))

NewExpressionStatement(tok) ==
  /\ Running
  /\ node = Nil
  /\ Built(ExpressionStatement(tok, Nil))

\* stmt.Name = &ast.Identifier{...}
SetName(id) ==
  /\ Running
  /\ node # Nil
  /\ node[1].kind = "LetStatement"
  /\ Built([node[1] EXCEPT !.Name = <<id>>])

\* stmt.Value = &ast.Identifier{...}
SetValue(id) ==
  /\ Running
  /\ node # Nil
  /\ node[1].kind = "LetStatement"
  /\ Built([node[1] EXCEPT !.Value = <<id>>])

SetReturnValue(id) ==
  /\ Running
  /\ node # Nil
  /\ node[1].kind = "ReturnStatement"
  /\ Built([node[1] EXCEPT !.ReturnValue = <<id>>])

SetExpression(id) ==
  /\ Running
  /\ node # Nil
  /\ node[1].kind = "ExpressionStatement"
  /\ Built([node[1] EXCEPT !.Expression = <<id>>])

\* program.Statements = append(program.Statements, s)
ProgramAppend(s) ==
  /\ Running
  /\ Len(Statements) < MaxStatements
  /\ Statements' = Append(Statements, s)
  /\ call' = NoCall
  /\ out' = Returns("")
  /\ last' = Nil
  /\ UNCHANGED node

\* A String() that consumes what it prints.
CallString_Draining(t, keep) ==
  /\ Running
  /\ Exists(t)
  /\ out' = Node_String(t)
  /\ call' = [op |-> "String", t |-> t, repeat |-> (last # Nil /\ last[1].t = t)]
  /\ last' = IF keep THEN <<[t |-> t, res |-> out']>> ELSE last
  /\ Statements' = IF t.on = "Program" THEN <<>> ELSE Statements
  /\ UNCHANGED node

\* n.String() by a consumer, who may keep the text (keep) to compare it later.
CallString(t, keep) ==
  /\ Running
  /\ Exists(t)
  /\ out' = Node_String(t)
  /\ call' = [op |-> "String", t |-> t, repeat |-> (last # Nil /\ last[1].t = t)]
  /\ last' = IF keep THEN <<[t |-> t, res |-> out']>> ELSE last
  /\ UNCHANGED <<Statements, node>>

\* n.TokenLiteral() by a consumer.
CallTokenLiteral(t) ==
  /\ Running
  /\ Exists(t)
  /\ out' = Node_TokenLiteral(t)
  /\ call' = [op |-> "TokenLiteral", t |-> t, repeat |-> FALSE]
  /\ UNCHANGED <<Statements, node, last>>

\* A producer builds one statement field by field while a consumer reads it.
NextNode ==
  \/ \E tok \in LetTokens : NewLetStatement(tok)
  \/ \E tok \in ReturnTokens : NewReturnStatement(tok)
  \/ \E tok \in ExpressionTokens : NewExpressionStatement(tok)
  \/ \E id \in Identifiers : SetName(id)
  \/ \E id \in Identifiers : SetValue(id)
  \/ \E id \in Identifiers : SetReturnValue(id)
  \/ \E id \in Identifiers : SetExpression(id)
  \/ \E t \in Targets, keep \in BOOLEAN : CallString(t, keep)
  \/ \E t \in Targets : CallTokenLiteral(t)

SpecNode == Init /\ [][NextNode]_vars

\* A producer appends statements to a Program while a consumer reads the tree.
NextProgram ==
  \/ \E s \in StatementPool : ProgramAppend(s)
  \/ \E t \in Targets, keep \in BOOLEAN : CallString(t, keep)
  \/ \E t \in Targets : CallTokenLiteral(t)

SpecProgram == Init /\ [][NextProgram]_vars

\* ------------------------------------------------------------------ properties

Called(op, t) == call.op = op /\ call.t = t

\* The Identifier a call on a child field went to.
CalledIdentifier == TargetStatement(call.t)[1][call.t.field][1]

OnIdentifier == call.op # "none" /\ call.t.field # ""

\* The text of a present child, the empty text for an absent one.
TextOrEmpty(e) == IF e = Nil THEN "" ELSE e[1].Value

\* s_i.String() + ... + s_n.String(), summed from the right.
RECURSIVE ConcatFrom(_, _)
ConcatFrom(stmts, i) ==
  IF i > Len(stmts)
    THEN ""
    ELSE Statement_String(stmts[i]).text \o ConcatFrom(stmts, i + 1)

\* The shapes the data model defines: a LetStatement always has its Name.
WellShaped(s) == s.kind = "LetStatement" => s.Name # Nil

AllWellShaped == \A i \in 1..Len(Statements) : WellShaped(Statements[i])

\* C1: Program.TokenLiteral() returns the first statement's token literal, or
\* the empty text for the empty program; it never panics, and no statement
\* after the first has a part in it.
C1_ProgramTokenLiteral ==
  Called("TokenLiteral", ProgramNode) =>
    /\ ~out.panic
    /\ out.text = IF Len(Statements) = 0 THEN "" ELSE Statements[1].Token.Literal
    /\ Len(Statements) > 0 => out = Statement_TokenLiteral(Statements[1])

C1_Witness ==
  /\ Called("TokenLiteral", ProgramNode)
  /\ Len(Statements) >= 2
  /\ Statements[1].Token.Literal # Statements[2].Token.Literal
  /\ out.text = Statements[1].Token.Literal

\* C2: Program.String() is the concatenation of the statements' String() in
\* append order, with nothing between, before or after them; the empty
\* program renders as the empty text.
C2_ProgramStringConcatenates ==
  (/\ Called("String", ProgramNode)
   /\ \A i \in 1..Len(Statements) : ~Statement_String(Statements[i]).panic)
    => out = Returns(ConcatFrom(Statements, 1))

C2_Witness ==
  /\ Called("String", ProgramNode)
  /\ Len(Statements) = 2
  /\ Statements[1].kind = "LetStatement"
  /\ Statements[2].kind = "ReturnStatement"
  /\ out.text = "let x = y;return five;"

\* C3 as stated: with ReturnValue absent, ReturnStatement.String() is the token
\* literal immediately followed by ";": a ReturnStatement whose token literal
\* is "return" renders "return;".
C3_ReturnWithoutValue_AsStated ==
  (/\ Called("String", BuiltNode)
   /\ node[1].kind = "ReturnStatement"
   /\ node[1].ReturnValue = Nil
   /\ node[1].Token.Literal = "return")
    => out = Returns(node[1].Token.Literal \o ";")

\* C3 amended: with ReturnValue absent, ReturnStatement.String() writes no value
\* text and no placeholder, but keeps the space after the token literal: the
\* token literal, one space, ";" ("return ;").
C3_ReturnWithoutValue ==
  (/\ Called("String", BuiltNode)
   /\ node[1].kind = "ReturnStatement"
   /\ node[1].ReturnValue = Nil)
    => out = Returns(node[1].Token.Literal \o " ;")

C3_Witness ==
  /\ Called("String", BuiltNode)
  /\ node[1].kind = "ReturnStatement"
  /\ node[1].ReturnValue = Nil
  /\ node[1].Token.Literal = "return"
  /\ out = Returns("return ;")

\* C4: ReturnStatement.String() is TokenLiteral() + " " + the ReturnValue's
\* String() (nothing when absent) + ";"; "return" with Identifier "five" gives
\* "return five;".
C4_ReturnTemplate ==
  (Called("String", BuiltNode) /\ node[1].kind = "ReturnStatement")
    => out = Returns(((node[1].Token.Literal \o " ")
                        \o TextOrEmpty(node[1].ReturnValue)) \o ";")

C4_Witness ==
  /\ Called("String", BuiltNode)
  /\ node[1].kind = "ReturnStatement"
  /\ node[1].Token.Literal = "return"
  /\ node[1].ReturnValue # Nil
  /\ node[1].ReturnValue[1].Value = "five"
  /\ out = Returns("return five;")

\* C5: a LetStatement with Name present renders TokenLiteral() + " " +
\* Name.String() + " = " + the Value's String() (nothing when absent) + ";";
\* "let", "x", "y" gives "let x = y;".
C5_LetTemplate ==
  (/\ Called("String", BuiltNode)
   /\ node[1].kind = "LetStatement"
   /\ node[1].Name # Nil)
    => out = Returns(((((node[1].Token.Literal \o " ")
                          \o node[1].Name[1].Value) \o " = ")
                        \o TextOrEmpty(node[1].Value)) \o ";")

C5_Witness ==
  /\ Called("String", BuiltNode)
  /\ node[1].kind = "LetStatement"
  /\ node[1].Name # Nil
  /\ node[1].Value # Nil
  /\ out = Returns("let x = y;")

\* C6: ExpressionStatement.String() is exactly the wrapped Expression's
\* String(), and the empty text when the Expression is absent, whatever the
\* statement's own token.
C6_ExpressionStatementDelegates ==
  (Called("String", BuiltNode) /\ node[1].kind = "ExpressionStatement")
    => out = Returns(TextOrEmpty(node[1].Expression))

C6_Witness ==
  /\ Called("String", BuiltNode)
  /\ node[1].kind = "ExpressionStatement"
  /\ node[1].Token.Literal = "x"
  /\ node[1].Expression # Nil
  /\ out = Returns("foobar")

C8_Total ==
  (/\ call.op # "none"
   /\ \/ call.t.on = "Program" /\ AllWellShaped
      \/ call.t.on # "Program" /\ WellShaped(TargetStatement(call.t)[1]))
    => ~out.panic

C8_Witness ==
  /\ Called("String", ProgramNode)
  /\ Len(Statements) >= 2
  /\ AllWellShaped
  /\ \E i \in 1..Len(Statements) :
       /\ Statements[i].kind = "LetStatement"
       /\ Statements[i].Value = Nil
  /\ ~out.panic

C10_PartialRenderNeverFails ==
  Called("String", BuiltNode) => ~out.panic

====
